---------------------------- MODULE Spec2Model ----------------------------
(***************************************************************************)
(* KnapsackSolver (Dynamic Programming/Knapsack/knapsack.py) as a state    *)
(* machine.  One solver object (weights, values, capacity, n) is built by  *)
(* __init__; solve_all runs dfs_a, dp_a, dfs_b and dp_b in that order and  *)
(* compares what they returned.  The recursive solvers run on an explicit  *)
(* call stack, one frame per activation of the nested dfs; the iterative   *)
(* solvers fill their grid one cell per step.                              *)
(*                                                                         *)
(* Python lists and numpy arrays are indexed from 0; weights and values    *)
(* are TLA+ sequences, so item k of the code is element k+1 of the         *)
(* sequence (operator At).                                                 *)
(*                                                                         *)
(* Integers: dfs_a and dfs_b compute with Python integers (unbounded),     *)
(* dp_a with numpy int64 cells and dp_b with float64 cells.  Every number  *)
(* of the model is below 2^31, where int64 and float64 arithmetic is exact.*)
(***************************************************************************)
EXTENDS Integers, Sequences, FiniteSets, TLC

VARIABLES
    weights,    \* self.weights
    values,     \* self.values
    capacity,   \* self.capacity
    n,          \* self.n
    pc,         \* the statement solve_all (or the method it called) is at
    stack,      \* activations of the nested dfs, innermost last
    ret,        \* the value the last finished activation of dfs returned
    memo,       \* the local memo of dfs_a / dfs_b
    grid,       \* the local dp of dp_a / dp_b
    i,          \* the row loop variable of dp_a (i) / dp_b (k)
    c,          \* the column loop variable of dp_a (c) / dp_b (w)
    results,    \* the results dict solve_all builds
    out,        \* how the last call of solve_all ended
    access,     \* what the last step read and wrote (observation)
    writes,     \* per grid cell, the assignments by the fill loop (observation)
    first,      \* per method, the value of its first return on this object (observation)
    prev        \* capacity and results of the solver object built before this one (observation)

vars == << weights, values, capacity, n, pc, stack, ret, memo, grid, i, c,
           results, out, access, writes, first, prev >>

instance == << weights, values, capacity, n >>

---------------------------------------------------------------------------
(* The sentinel of an infeasible take branch: take = -10**9 *)
SENTINEL == -1000000000

(* Bounds of the model: at most MaxN items, capacity and weights at most MaxCap *)
MaxN == 2

MaxCap == 2

Weights == 0 .. MaxCap

(* Item values: none, a small one and one beyond the sentinel's magnitude *)
BigValue == 1 - SENTINEL

ItemValues == {0, 1, BigValue}

---------------------------------------------------------------------------
(* Python and numpy primitives *)

(* seq[k] of a Python list, for 0 <= k < len(seq) *)
At(seq, k) == seq[k + 1]

(* Seeded fault: the skip branch is dropped from the maximum *)
TakeOnly(a, b) == b

(* max(skip, take) *)
PyMax(a, b) == IF a >= b THEN a ELSE b

(* {} : the empty dict *)
EmptyDict == [k \in {} |-> 0]

(* d[k] = v *)
Put(d, k, v) == [x \in DOMAIN d \cup {k} |-> IF x = k THEN v ELSE d[x]]

(* int(x) of a float64 cell: the cells of dp_b hold integers below 2^53,   *)
(* which float64 represents exactly, so int() gives the integer back       *)
PyInt(x) == x

(* set(d.values()): values of int, numpy int64 and float64 that are equal  *)
(* as numbers are one element                                              *)
ValuesOf(d) == {d[k] : k \in DOMAIN d}

(* numpy accepts index k of an axis of length len when -len <= k < len *)
InBounds(k, len) == -len <= k /\ k < len

(* a negative index counts from the end of the axis *)
NpIndex(k, len) == IF k < 0 THEN k + len ELSE k

(* np.full((rows, cols), v) and np.zeros((rows, cols)) = NpFull(rows, cols, 0) *)
NpFull(rows, cols, v) == [r \in 0 .. rows - 1 |-> [col \in 0 .. cols - 1 |-> v]]

NoGrid == NpFull(0, 0, 0)

Cells(g) == {<<r, col>> : r \in DOMAIN g, col \in 0 .. capacity}

---------------------------------------------------------------------------
(* Observation of a step: the grid cells read and written, as the code     *)
(* indexes them; the positions used to index weights and values; whether   *)
(* the feasibility gate was evaluated and how; and the locals skip and     *)
(* max(skip, take) of the statement that stores.                           *)

NoAccess ==
    [read |-> {}, write |-> {}, item |-> {}, gate |-> "none", skip |-> 0, val |-> 0]

Stored(rd, wr, it, gate, skip, val) ==
    [read |-> rd, write |-> wr, item |-> it, gate |-> gate, skip |-> skip, val |-> val]

NoOutcome == [kind |-> "none", payload |-> EmptyDict]

NoPrev == [capacity |-> -1, results |-> EmptyDict]

---------------------------------------------------------------------------
(* __init__ : the fields are stored as given; no check is made *)

BoundedSeq(S, k) == UNION {[1 .. m -> S] : m \in 0 .. k}

Constructed(ws, vs, cap) ==
    /\ weights = ws
    /\ values = vs
    /\ capacity = cap
    /\ n = Len(ws)

Fresh ==
    /\ pc = "idle"
    /\ stack = << >>
    /\ ret = 0
    /\ memo = EmptyDict
    /\ grid = NoGrid
    /\ i = 0
    /\ c = 0
    /\ results = EmptyDict
    /\ out = NoOutcome
    /\ access = NoAccess
    /\ writes = NoGrid
    /\ first = EmptyDict
    /\ prev = NoPrev

(* The total value stays below 2^31: at most two items carry BigValue *)
Representable(vs) == Cardinality({k \in DOMAIN vs : vs[k] = BigValue}) <= 2

(* A solver object over a valid instance: len(weights) = len(values) *)
Init ==
    /\ \E ws \in BoundedSeq(Weights, MaxN), cap \in 0 .. MaxCap :
         \E vs \in [DOMAIN ws -> ItemValues] :
            /\ Representable(vs)
            /\ Constructed(ws, vs, cap)
    /\ Fresh

(* A solver object over any two sequences *)
InitAny ==
    /\ \E ws \in BoundedSeq(Weights, MaxN), cap \in 0 .. MaxCap :
         \E vs \in BoundedSeq(ItemValues, MaxN) :
            /\ Representable(vs)
            /\ Constructed(ws, vs, cap)
    /\ Fresh

---------------------------------------------------------------------------
(* Shared steps *)

(* Seeded fault: the gate admits an item only when it fills the capacity *)
FitsExactly(cap, w) == cap = w

(* Seeded fault: the gate is dropped *)
AlwaysFits(cap, w) == TRUE

(* The feasibility gate: c >= self.weights[i] (w >= self.weights[k - 1]) *)
Fits(cap, w) == cap >= w

(* Seeded fault: the memo of dfs_a outlives the call and holds what the    *)
(* last recursive solve left in it                                         *)
StaleMemo == memo

(* memo = {} : each call of dfs_a starts from its own empty memo *)
NewMemoA == EmptyDict

(* memo = {} : each call of dfs_b starts from its own empty memo *)
NewMemoB == EmptyDict

(* A new activation of the nested dfs, at its first statement *)
Frame(a, b) == [i |-> a, c |-> b, at |-> "enter", skip |-> 0]

Top == stack[Len(stack)]

Popped == SubSeq(stack, 1, Len(stack) - 1)

Key(f) == <<f.i, f.c>>

(* An exception leaves solve_all: the call ends, nothing is returned *)
Raise(kind, payload) ==
    /\ pc' = "idle"
    /\ out' = [kind |-> kind, payload |-> payload]
    /\ stack' = << >>

(* A method returned v to solve_all, which goes on at statement next *)
Returned(method, v, next) ==
    /\ results' = Put(results, method, v)
    /\ first' = IF method \in DOMAIN first THEN first ELSE Put(first, method, v)
    /\ pc' = next

(* memo[(i, c)] = max(skip, take); return memo[(i, c)] *)
StoreAndReturn(skip, take, gate, item) ==
    LET v == PyMax(skip, take)
    IN /\ memo' = Put(memo, Key(Top), v)
       /\ stack' = Popped
       /\ ret' = v
       /\ access' = Stored({}, {}, {item}, gate, skip, v)

(* The body of the inner loop of dp_a (lines 70-74) and of dp_b (lines     *)
(* 117-121): the cell of row dst, column col from row src and item `item`. *)
(* values[item] is evaluated before the cell of the take branch is read.   *)
Relax(g, src, col, item) ==
    LET w == At(weights, item)
        skip == g[src][col]
        from == col - w
    IN IF ~Fits(col, w)
       THEN [err |-> FALSE,
             acc |-> Stored({<<src, col>>}, {}, {item}, "shut", skip, PyMax(skip, SENTINEL))]
       ELSE IF item >= Len(values)
       THEN [err |-> TRUE,
             acc |-> Stored({<<src, col>>}, {}, {item}, "open", skip, skip)]
       ELSE IF ~InBounds(from, capacity + 1)
       THEN [err |-> TRUE,
             acc |-> Stored({<<src, col>>, <<src, from>>}, {}, {item}, "open", skip, skip)]
       ELSE [err |-> FALSE,
             acc |-> Stored({<<src, col>>, <<src, from>>}, {}, {item}, "open", skip,
                            PyMax(skip, At(values, item) + g[src][NpIndex(from, capacity + 1)]))]

(* dp[dst][col] = max(skip, take) and the loops' next (row, column), or    *)
(* the IndexError of values[item]                                          *)
FillCell(dst, col, r, next) ==
    IF r.err
    THEN /\ Raise("IndexError", EmptyDict)
         /\ access' = r.acc
         /\ UNCHANGED << grid, writes, i, c >>
    ELSE /\ grid' = [grid EXCEPT ![dst][col] = r.acc.val]
         /\ writes' = [writes EXCEPT ![dst][col] = @ + 1]
         /\ access' = [r.acc EXCEPT !.write = {<<dst, col>>}]
         /\ i' = next[1]
         /\ c' = next[2]
         /\ UNCHANGED << pc, out, stack >>

---------------------------------------------------------------------------
(* solve_all *)

(* results = {"DFS_A": self.dfs_a(), ...} : the four calls, in this order *)
SolveAll ==
    /\ pc = "idle"
    /\ pc' = "dfs_a"
    /\ results' = EmptyDict
    /\ out' = NoOutcome
    /\ access' = NoAccess
    /\ UNCHANGED << instance, stack, ret, memo, grid, i, c, writes, first, prev >>

(* Seeded fault: only the two tabulations are compared *)
TabulationsDiffer(res) == res["DP_A"] # res["DP_B"]

(* len(unique_results) != 1 *)
Inconsistent(res) == Cardinality(ValuesOf(res)) # 1

(* raise ValueError(f"Inconsistent results: {results}") or return results *)
Verify ==
    /\ pc = "verify"
    /\ pc' = "idle"
    /\ out' = [kind |-> IF Inconsistent(results) THEN "ValueError" ELSE "return",
               payload |-> results]
    /\ access' = NoAccess
    /\ UNCHANGED << instance, stack, ret, memo, grid, i, c, results, writes, first, prev >>

---------------------------------------------------------------------------
(* dfs_a : state (i, c) = (current index, remaining capacity) *)

(* if i >= self.n or c <= 0 *)
BaseA(a, b) == a >= n \/ b <= 0

DfsA_Call ==
    /\ pc = "dfs_a"
    /\ memo' = NewMemoA
    /\ stack' = << Frame(0, capacity) >>
    /\ pc' = "dfs_a.run"
    /\ access' = NoAccess
    /\ UNCHANGED << instance, ret, grid, i, c, results, out, writes, first, prev >>

DfsA_Base ==
    /\ pc = "dfs_a.run" /\ stack # << >> /\ Top.at = "enter"
    /\ BaseA(Top.i, Top.c)
    /\ stack' = Popped
    /\ ret' = 0
    /\ access' = NoAccess
    /\ UNCHANGED << instance, pc, memo, grid, i, c, results, out, writes, first, prev >>

DfsA_Memo ==
    /\ pc = "dfs_a.run" /\ stack # << >> /\ Top.at = "enter"
    /\ ~BaseA(Top.i, Top.c)
    /\ Key(Top) \in DOMAIN memo
    /\ stack' = Popped
    /\ ret' = memo[Key(Top)]
    /\ access' = NoAccess
    /\ UNCHANGED << instance, pc, memo, grid, i, c, results, out, writes, first, prev >>

(* skip = dfs(i + 1, c) *)
DfsA_Skip ==
    /\ pc = "dfs_a.run" /\ stack # << >> /\ Top.at = "enter"
    /\ ~BaseA(Top.i, Top.c)
    /\ Key(Top) \notin DOMAIN memo
    /\ stack' = Append([stack EXCEPT ![Len(stack)].at = "skip"], Frame(Top.i + 1, Top.c))
    /\ access' = NoAccess
    /\ UNCHANGED << instance, pc, ret, memo, grid, i, c, results, out, writes, first, prev >>

(* take = -10**9; if c >= self.weights[i]: take = self.values[i] + dfs(i + 1, c - w) *)
DfsA_Gate ==
    /\ pc = "dfs_a.run" /\ stack # << >> /\ Top.at = "skip"
    /\ LET w == At(weights, Top.i)
       IN IF ~Fits(Top.c, w)
          THEN /\ StoreAndReturn(ret, SENTINEL, "shut", Top.i)
               /\ UNCHANGED << pc, out >>
          ELSE IF Top.i >= Len(values)
          THEN /\ Raise("IndexError", EmptyDict)
               /\ access' = Stored({}, {}, {Top.i}, "open", ret, ret)
               /\ UNCHANGED << ret, memo >>
          ELSE /\ stack' = Append([stack EXCEPT ![Len(stack)].at = "take",
                                                ![Len(stack)].skip = ret],
                                  Frame(Top.i + 1, Top.c - w))
               /\ access' = Stored({}, {}, {Top.i}, "open", ret, ret)
               /\ UNCHANGED << pc, out, ret, memo >>
    /\ UNCHANGED << instance, grid, i, c, results, writes, first, prev >>

DfsA_Take ==
    /\ pc = "dfs_a.run" /\ stack # << >> /\ Top.at = "take"
    /\ StoreAndReturn(Top.skip, At(values, Top.i) + ret, "open", Top.i)
    /\ UNCHANGED << instance, pc, grid, i, c, results, out, writes, first, prev >>

(* return dfs(0, self.capacity) *)
DfsA_Return ==
    /\ pc = "dfs_a.run" /\ stack = << >>
    /\ Returned("DFS_A", ret, "dp_a")
    /\ access' = NoAccess
    /\ UNCHANGED << instance, stack, ret, memo, grid, i, c, out, writes, prev >>

---------------------------------------------------------------------------
(* dp_a : dp[i][c] = best value of items i..n-1 with capacity c *)

(* dp = np.full((self.n + 1, self.capacity + 1), -10**9) *)
DpA_Alloc ==
    /\ pc = "dp_a"
    /\ grid' = NpFull(n + 1, capacity + 1, SENTINEL)
    /\ writes' = NpFull(n + 1, capacity + 1, 0)
    /\ pc' = "dp_a.base"
    /\ access' = NoAccess
    /\ UNCHANGED << instance, stack, ret, memo, i, c, results, out, first, prev >>

(* dp[self.n, :] = 0, then the first (i, c) of the two loops *)
DpA_BaseRow ==
    /\ pc = "dp_a.base"
    /\ grid' = [grid EXCEPT ![n] = [col \in 0 .. capacity |-> 0]]
    /\ i' = n - 1
    /\ c' = 0
    /\ pc' = "dp_a.fill"
    /\ access' = Stored({}, {<<n, col>> : col \in 0 .. capacity}, {}, "none", 0, 0)
    /\ UNCHANGED << instance, stack, ret, memo, results, out, writes, first, prev >>

(* Seeded fault: the column loop stops one short, range(capacity) *)
DpA_NextShort(a, b) == IF b < capacity - 1 THEN <<a, b + 1>> ELSE <<a - 1, 0>>

(* for i in range(n - 1, -1, -1): for c in range(capacity + 1): the next (i, c) *)
DpA_Next(a, b) == IF b < capacity THEN <<a, b + 1>> ELSE <<a - 1, 0>>

DpA_Cell ==
    /\ pc = "dp_a.fill" /\ i >= 0
    /\ FillCell(i, c, Relax(grid, i + 1, c, i), DpA_Next(i, c))
    /\ UNCHANGED << instance, ret, memo, results, first, prev >>

(* return dp[0][self.capacity] *)
DpA_Return ==
    /\ pc = "dp_a.fill" /\ i < 0
    /\ Returned("DP_A", grid[0][capacity], "dfs_b")
    /\ access' = Stored({<<0, capacity>>}, {}, {}, "none", 0, 0)
    /\ UNCHANGED << instance, stack, ret, memo, grid, i, c, out, writes, prev >>

---------------------------------------------------------------------------
(* dfs_b : state (k, w) = (items processed, capacity budget); a frame's    *)
(* field i holds k and its field c holds w                                 *)

(* if k == 0 *)
BaseB(k, w) == k = 0

DfsB_Call ==
    /\ pc = "dfs_b"
    /\ memo' = NewMemoB
    /\ stack' = << Frame(n, capacity) >>
    /\ pc' = "dfs_b.run"
    /\ access' = NoAccess
    /\ UNCHANGED << instance, ret, grid, i, c, results, out, writes, first, prev >>

DfsB_Base ==
    /\ pc = "dfs_b.run" /\ stack # << >> /\ Top.at = "enter"
    /\ BaseB(Top.i, Top.c)
    /\ stack' = Popped
    /\ ret' = 0
    /\ access' = NoAccess
    /\ UNCHANGED << instance, pc, memo, grid, i, c, results, out, writes, first, prev >>

DfsB_Memo ==
    /\ pc = "dfs_b.run" /\ stack # << >> /\ Top.at = "enter"
    /\ ~BaseB(Top.i, Top.c)
    /\ Key(Top) \in DOMAIN memo
    /\ stack' = Popped
    /\ ret' = memo[Key(Top)]
    /\ access' = NoAccess
    /\ UNCHANGED << instance, pc, memo, grid, i, c, results, out, writes, first, prev >>

(* skip = dfs(k - 1, w) *)
DfsB_Skip ==
    /\ pc = "dfs_b.run" /\ stack # << >> /\ Top.at = "enter"
    /\ ~BaseB(Top.i, Top.c)
    /\ Key(Top) \notin DOMAIN memo
    /\ stack' = Append([stack EXCEPT ![Len(stack)].at = "skip"], Frame(Top.i - 1, Top.c))
    /\ access' = NoAccess
    /\ UNCHANGED << instance, pc, ret, memo, grid, i, c, results, out, writes, first, prev >>

(* take = -10**9; if w >= self.weights[k - 1]:                             *)
(*     take = self.values[k - 1] + dfs(k - 1, w - self.weights[k - 1])     *)
DfsB_Gate ==
    /\ pc = "dfs_b.run" /\ stack # << >> /\ Top.at = "skip"
    /\ LET w == At(weights, Top.i - 1)
       IN IF ~Fits(Top.c, w)
          THEN /\ StoreAndReturn(ret, SENTINEL, "shut", Top.i - 1)
               /\ UNCHANGED << pc, out >>
          ELSE IF Top.i - 1 >= Len(values)
          THEN /\ Raise("IndexError", EmptyDict)
               /\ access' = Stored({}, {}, {Top.i - 1}, "open", ret, ret)
               /\ UNCHANGED << ret, memo >>
          ELSE /\ stack' = Append([stack EXCEPT ![Len(stack)].at = "take",
                                                ![Len(stack)].skip = ret],
                                  Frame(Top.i - 1, Top.c - w))
               /\ access' = Stored({}, {}, {Top.i - 1}, "open", ret, ret)
               /\ UNCHANGED << pc, out, ret, memo >>
    /\ UNCHANGED << instance, grid, i, c, results, writes, first, prev >>

DfsB_Take ==
    /\ pc = "dfs_b.run" /\ stack # << >> /\ Top.at = "take"
    /\ StoreAndReturn(Top.skip, At(values, Top.i - 1) + ret, "open", Top.i - 1)
    /\ UNCHANGED << instance, pc, grid, i, c, results, out, writes, first, prev >>

(* return dfs(self.n, self.capacity) *)
DfsB_Return ==
    /\ pc = "dfs_b.run" /\ stack = << >>
    /\ Returned("DFS_B", ret, "dp_b")
    /\ access' = NoAccess
    /\ UNCHANGED << instance, stack, ret, memo, grid, i, c, out, writes, prev >>

---------------------------------------------------------------------------
(* dp_b : dp[k][w] = best value of the first k items with capacity w; the  *)
(* loop variable k is held in i and w in c                                 *)

(* dp = np.zeros((self.n + 1, self.capacity + 1)), then the first (k, w) *)
DpB_Alloc ==
    /\ pc = "dp_b"
    /\ grid' = NpFull(n + 1, capacity + 1, 0)
    /\ writes' = NpFull(n + 1, capacity + 1, 0)
    /\ i' = 1
    /\ c' = 0
    /\ pc' = "dp_b.fill"
    /\ access' = NoAccess
    /\ UNCHANGED << instance, stack, ret, memo, results, out, first, prev >>

(* for k in range(1, n + 1): for w in range(capacity + 1): the next (k, w) *)
DpB_Next(k, w) == IF w < capacity THEN <<k, w + 1>> ELSE <<k + 1, 0>>

DpB_Cell ==
    /\ pc = "dp_b.fill" /\ i <= n
    /\ FillCell(i, c, Relax(grid, i - 1, c, i - 1), DpB_Next(i, c))
    /\ UNCHANGED << instance, ret, memo, results, first, prev >>

(* return int(dp[self.n][self.capacity]) *)
DpB_Return ==
    /\ pc = "dp_b.fill" /\ i > n
    /\ Returned("DP_B", PyInt(grid[n][capacity]), "verify")
    /\ access' = Stored({<<n, capacity>>}, {}, {}, "none", 0, 0)
    /\ UNCHANGED << instance, stack, ret, memo, grid, i, c, out, writes, prev >>

---------------------------------------------------------------------------
(* A second solver object over the same items with a larger capacity:      *)
(* KnapsackSolver(weights, values, cap), after the first one was solved    *)
Construct ==
    /\ pc = "idle" /\ out.kind # "none"
    /\ \E cap \in capacity + 1 .. MaxCap :
          /\ capacity' = cap
          /\ prev' = [capacity |-> capacity, results |-> first]
    /\ first' = EmptyDict
    /\ out' = NoOutcome
    /\ results' = EmptyDict
    /\ access' = NoAccess
    /\ UNCHANGED << weights, values, n, pc, stack, ret, memo, grid, i, c, writes >>

---------------------------------------------------------------------------
Next ==
    \/ SolveAll
    \/ DfsA_Call \/ DfsA_Base \/ DfsA_Memo \/ DfsA_Skip \/ DfsA_Gate \/ DfsA_Take
    \/ DfsA_Return
    \/ DpA_Alloc \/ DpA_BaseRow \/ DpA_Cell \/ DpA_Return
    \/ DfsB_Call \/ DfsB_Base \/ DfsB_Memo \/ DfsB_Skip \/ DfsB_Gate \/ DfsB_Take
    \/ DfsB_Return
    \/ DpB_Alloc \/ DpB_Cell \/ DpB_Return
    \/ Verify

(* solve_all, any number of times, on a solver object over a valid instance *)
Spec == Init /\ [][Next]_vars

(* ... and on a second object with the same items and a larger capacity *)
SpecGrow == Init /\ [][Next \/ Construct]_vars

(* solve_all on a solver object built from any two sequences *)
SpecAny == InitAny /\ [][Next]_vars

---------------------------------------------------------------------------
(* run_test_suite: the nine test cases (weights, values, capacity, expected) *)
test_cases ==
    << << <<2, 3, 4, 5>>, <<3, 4, 5, 6>>, 8, 10 >>,
       << <<1, 2, 3>>, <<6, 10, 12>>, 5, 22 >>,
       << <<5, 6, 7>>, <<10, 20, 30>>, 4, 0 >>,
       << <<1, 2, 3>>, <<4, 5, 6>>, 0, 0 >>,
       << << >>, << >>, 10, 0 >>,
       << <<10, 20, 30>>, <<60, 100, 120>>, 50, 220 >>,
       << <<3, 4, 5>>, <<30, 50, 60>>, 8, 90 >>,
       << <<2, 4, 6>>, <<100, 1000, 10000>>, 6, 10000 >>,
       << <<3, 3, 3>>, <<5, 5, 5>>, 6, 10 >> >>

(* solver = KnapsackSolver(weights, values, capacity) for one of the cases *)
InitSuite ==
    /\ \E t \in DOMAIN test_cases :
          Constructed(test_cases[t][1], test_cases[t][2], test_cases[t][3])
    /\ Fresh

SpecSuite == InitSuite /\ [][Next]_vars

(* Every method prints PASS and the verdict is ALL MATCH on each case *)
SuitePasses ==
    /\ \A t \in DOMAIN test_cases :
          Constructed(test_cases[t][1], test_cases[t][2], test_cases[t][3]) =>
              \A m \in DOMAIN results : results[m] = test_cases[t][4]
    /\ out.kind \in {"none", "return"}

---------------------------------------------------------------------------
(* The problem the solver is to solve, stated without reference to it *)

Methods == {"DFS_A", "DP_A", "DFS_B", "DP_B"}

(* len(weights) = len(values); weights, values and capacity are >= 0 by construction *)
Valid == Len(weights) = Len(values)

RECURSIVE Total(_, _)
Total(seq, S) ==
    IF S = {} THEN 0
    ELSE LET k == CHOOSE x \in S : TRUE IN seq[k] + Total(seq, S \ {k})

(* The subsets of the items whose total weight is at most cap *)
Packings(cap) == {S \in SUBSET DOMAIN weights : Total(weights, S) <= cap}

(* The largest total value of a packing (the empty packing has value 0) *)
Optimum(cap) ==
    CHOOSE v \in {Total(values, S) : S \in Packings(cap)} :
        \A S \in Packings(cap) : Total(values, S) <= v

(* The total value of the items of weight 0 *)
FreeValue == Total(values, {k \in DOMAIN weights : weights[k] = 0})

---------------------------------------------------------------------------
(* C1: on every valid instance dfs_a, dp_a, dfs_b and dp_b return the same *)
(* value, so solve_all never raises on a valid instance.                   *)
C1_FourMethodsAgree ==
    Valid =>
        /\ \A a, b \in DOMAIN results : results[a] = results[b]
        /\ out.kind \notin {"ValueError", "IndexError"}

(* C2: on every valid instance each method returns the optimal achievable  *)
(* value: the largest total value of a subset of the items whose total     *)
(* weight is at most capacity.                                             *)
C2_EachMethodOptimal ==
    Valid => \A m \in DOMAIN results : results[m] = Optimum(capacity)

(* C3: a solver object whose weights and values differ in length is        *)
(* rejected at construction, so no solver method ever runs on one.         *)
C3_MismatchNeverSolved ==
    ~Valid => (first = EmptyDict /\ out = NoOutcome)

C4_DisagreementIsRaised ==
    out.kind \in {"return", "ValueError"} =>
        /\ DOMAIN out.payload = Methods
        /\ out.payload = results
        /\ out.kind = "ValueError" <=>
              \E a, b \in Methods : out.payload[a] # out.payload[b]
        /\ out.kind = "return" =>
              \A a, b \in Methods : out.payload[a] = out.payload[b]

C4_Witness ==
    /\ out.kind = "ValueError"
    /\ out.payload["DFS_A"] # out.payload["DP_A"]
    /\ out.payload["DP_A"] = out.payload["DP_B"]

(* C5: an infeasible take branch never wins the maximum: what is stored    *)
(* for the state is the skip value; no memo entry, no grid cell the        *)
(* recurrence reads and no returned value is the sentinel or below zero.   *)
C5_SentinelNeverWins ==
    Valid =>
        /\ access.gate = "shut" => access.val = access.skip
        /\ \A k \in DOMAIN memo : memo[k] >= 0
        /\ \A cell \in access.read \cap Cells(grid) : grid[cell[1]][cell[2]] >= 0
        /\ \A cell \in access.write \cap Cells(grid) : grid[cell[1]][cell[2]] >= 0
        /\ \A m \in DOMAIN results : results[m] >= 0
        /\ ret >= 0

(* the gate is shut at a state whose skip value exceeds the sentinel's magnitude *)
C5_Witness ==
    /\ access.gate = "shut"
    /\ access.skip >= BigValue
    /\ access.val = access.skip
    /\ pc = "dp_a.fill"

(* C7: for the same weights and values, a method's result at a capacity is *)
(* at most its result at any larger capacity.                              *)
C7_MonotoneInCapacity ==
    (Valid /\ prev # NoPrev) =>
        /\ prev.capacity < capacity
        /\ \A m \in DOMAIN results \cap DOMAIN prev.results :
              prev.results[m] <= results[m]

C7_Witness ==
    /\ prev # NoPrev
    /\ DOMAIN results = Methods
    /\ prev.capacity > 0
    /\ \A m \in Methods : prev.results[m] < results[m]

(* C8: no step of a solve call changes the instance, each call starts from *)
(* a fresh memo or grid, and a method called again on the same object      *)
(* returns what its first call returned.                                   *)
C8_CallsAreIndependent ==
    [][ /\ instance' = instance
        /\ \A m \in DOMAIN results' \cap DOMAIN first : results'[m] = first[m]
        /\ (pc \in {"dfs_a", "dfs_b"} /\ pc' # pc) => memo' = EmptyDict
        /\ (pc = "dp_a" /\ pc' # pc) => grid' = NpFull(n + 1, capacity + 1, SENTINEL)
        /\ (pc = "dp_b" /\ pc' # pc) => grid' = NpFull(n + 1, capacity + 1, 0)
      ]_vars

(* dfs_a has returned for the second time on the same object *)
C8_Witness ==
    /\ pc = "dp_a"
    /\ DOMAIN first = Methods
    /\ DOMAIN results = {"DFS_A"}
    /\ results["DFS_A"] = first["DFS_A"]
    /\ first["DFS_A"] > 0
    /\ n = MaxN

(* Cell (r, col) comes before (a, b) in the order rows n-1 down to 0,      *)
(* columns 0 up to capacity                                                *)
FilledBefore(r, col, a, b) == r > a \/ (r = a /\ col < b)

(* C9: in dp_a, row n is 0 in every column before any other row is filled; *)
(* rows are filled from i = n-1 down to 0 and columns from 0 up; a cell    *)
(* (i, c) is computed only from cells of row i+1 that hold their final     *)
(* value; each cell of rows 0..n-1 is written exactly once; and            *)
(* dp[0][capacity] is read as the answer only when every cell is computed. *)
C9_FillOrder ==
    /\ pc = "dp_a.base" =>
          \A cell \in Cells(grid) :
              grid[cell[1]][cell[2]] = SENTINEL /\ writes[cell[1]][cell[2]] = 0
    /\ pc \in {"dp_a.fill", "dfs_b"} =>
          /\ \A col \in 0 .. capacity : grid[n][col] = 0 /\ writes[n][col] = 0
          /\ \A r \in 0 .. n - 1, col \in 0 .. capacity :
                /\ writes[r][col] = IF FilledBefore(r, col, i, c) THEN 1 ELSE 0
                /\ writes[r][col] = 0 => grid[r][col] = SENTINEL
          /\ \A wr \in access.write, rd \in access.read :
                /\ rd[1] = wr[1] + 1
                /\ rd[2] \in 0 .. capacity
                /\ rd[1] = n \/ writes[rd[1]][rd[2]] = 1
    /\ pc = "dfs_b" =>
          /\ i = -1
          /\ \A r \in 0 .. n - 1, col \in 0 .. capacity : writes[r][col] = 1
          /\ access.read = {<<0, capacity>>}
          /\ results["DP_A"] = grid[0][capacity]

(* row 0 is being filled from row 1, which is not the base row *)
C9_Witness ==
    /\ pc = "dp_a.fill"
    /\ n >= 2
    /\ i = 0
    /\ c = capacity
    /\ capacity >= 1
    /\ access.gate = "open"
    /\ access.read = {<<1, c - 1>>, <<1, 0>>}
    /\ access.write = {<<0, c - 1>>}

(* C10: every state the recursive solvers reach, every memo key and every  *)
(* grid cell the iterative solvers access lies in 0..n x 0..capacity (no   *)
(* capacity argument or column index is negative), and weights and values  *)
(* are indexed at positions 0..n-1 only.                                   *)
C10_StatesInRange ==
    Valid =>
        /\ \A f \in 1 .. Len(stack) :
              stack[f].i \in 0 .. n /\ stack[f].c \in 0 .. capacity
        /\ \A k \in DOMAIN memo : k[1] \in 0 .. n /\ k[2] \in 0 .. capacity
        /\ \A cell \in access.read \cup access.write :
              cell[1] \in 0 .. n /\ cell[2] \in 0 .. capacity
        /\ \A k \in access.item : k \in 0 .. n - 1
        /\ pc \in {"dp_a.fill", "dp_b.fill"} => c \in 0 .. capacity

(* the take branch of dfs_b has been entered with no capacity left over *)
C10_Witness ==
    /\ pc = "dfs_b.run"
    /\ Len(stack) >= 2
    /\ Top.at = "enter"
    /\ Top.c = 0
    /\ stack[Len(stack) - 1].at = "take"
    /\ stack[Len(stack) - 1].c > 0
    /\ access.item = {Top.i}

====
